---- MODULE Spec2Model ----
(***************************************************************************)
(* Model of isomer/guides/guide_manager.py: the GuideManager component,    *)
(* which downloads web guides (KML), translates them to GeoJSON with an    *)
(* external tool and imports the features into the layer / geoobject       *)
(* collections of the object store.                                        *)
(***************************************************************************)
EXTENDS Integers, Sequences, FiniteSets, TLC

VARIABLES guides, layers, geoobjects, next_uuid, kml, geojson, last, procs

vars == <<guides, layers, geoobjects, next_uuid, kml, geojson, last, procs>>

(***************************************************************************)
(* Bounds of the model.                                                    *)
(***************************************************************************)
\* number of identifiers std_uuid() hands out before the model stops
MaxUuid == 4

(***************************************************************************)
(* Data.                                                                   *)
(***************************************************************************)
\* the guide names an event may carry (event.data is any string); the
\* registry self.guides is a sequence of some of them, in iteration order
GuideNames == {"g1", "g2"}

\* the keys of a registry
Registered(registry) == {registry[i] : i \in 1..Len(registry)}

\* "no identifier": the value of `layer` when find_one returns None
NoUuid == 0

\* placemarks of a KML export: with or without a <name>
NoName == "-"

Placemark(name, point) == [name |-> name, point |-> point]

\* the decoded bodies an HTTP GET may return: no placemark, named
\* placemarks, and a placemark without a <name> (last or first)
Bodies ==
    {<< >>,
     <<Placemark("A", "p")>>,
     <<Placemark("A", "p"), Placemark("B", "q")>>,
     <<Placemark("A", "p"), Placemark(NoName, "q")>>,
     <<Placemark(NoName, "p")>>}

\* ogr2ogr -f GeoJSON: a placemark becomes a feature, its <name> the
\* property "Name" (properties are a set of key/value pairs)
FeatureOf(p) ==
    [type       |-> "Feature",
     geometry   |-> p.point,
     properties |-> IF p.name = NoName THEN {} ELSE {<<"Name", p.name>>}]

FeaturesOf(body) == [i \in 1..Len(body) |-> FeatureOf(body[i])]

\* item['properties']['Name'] raises KeyError when the key is missing
HasName(item) == \E kv \in item.properties : kv[1] = "Name"

NameOf(item) == (CHOOSE kv \in item.properties : kv[1] = "Name")[2]

\* files of the cache directory
NoFile == [exists |-> FALSE, valid |-> FALSE, features |-> << >>]

GeoJsonFile(features) == [exists |-> TRUE, valid |-> TRUE, features |-> features]

NoKml == [exists |-> FALSE, body |-> << >>]

KmlFile(body) == [exists |-> TRUE, body |-> body]

(***************************************************************************)
(* Environment outcomes of one _update_guide call.                         *)
(***************************************************************************)
\* request.urlopen(...).read().decode('utf-8')
FetchFailures == {"URLError", "HTTPError", "UnicodeDecodeError"}


\* Popen(...) / process.wait(): exit status 0, Popen raises, exit status
\* non-zero (no output written in the last two)
ToolOutcomes == {"ok", "spawn", "exit"}

ToolFailures == ToolOutcomes \ {"ok"}

Envs ==
    [fetch : FetchFailures, body : {<< >>}, tool : {"ok"}]
    \cup [fetch : {"ok"}, body : Bodies, tool : ToolOutcomes]

Log(lvl, msg) == [lvl |-> lvl, msg |-> msg]

(***************************************************************************)
(* The object store (objectmodels['layer'], objectmodels['geoobject']).    *)
(***************************************************************************)
NoLayer == [uuid |-> NoUuid, name |-> "", type |-> ""]

\* a variant that filters on a field no layer record has: nothing matches
find_one_WrongField(ls, name) == NoLayer

\* objectmodels['layer'].find_one({'name': guide}); None when nothing matches
find_one(ls, name) ==
    IF \E l \in ls : l.name = name
    THEN CHOOSE l \in ls : l.name = name
    ELSE NoLayer

\* objectmodels['layer']({...})
NewLayer(layer_uuid, guide) ==
    [uuid |-> layer_uuid, name |-> guide, type |-> "geoobjects"]

\* layer.save()
save(ls, layer) == ls \cup {layer}

\* a variant that removes nothing
delete_Nothing(records, record) == records

\* layer.delete(), item.delete()
delete(records, record) == records \ {record}

\* objectmodels['geoobject'].find({'layer': layer_uuid})
find(gs, layer_uuid) == {o \in gs : o.layer = layer_uuid}

\* a variant that stores the record's own uuid in the layer field
NewLocation_OwnUuid(uuid, layer_uuid, item) ==
    [uuid    |-> uuid,
     layer   |-> uuid,
     geojson |-> item,
     type    |-> "Skipperguide",
     name    |-> <<"Guide for", NameOf(item)>>]

\* objectmodels['geoobject']({...}) of the construction loop
NewLocation(uuid, layer_uuid, item) ==
    [uuid    |-> uuid,
     layer   |-> layer_uuid,
     geojson |-> item,
     type    |-> "Skipperguide",
     name    |-> <<"Guide for", NameOf(item)>>]

\* objectmodels['geoobject'].bulk_create(locations)
bulk_create(gs, locations) == gs \cup locations

(***************************************************************************)
(* The state a call works on, and the record of what one call did: its     *)
(* arguments, its local variables when it ended, what it touched outside   *)
(* the store, the log it wrote and the exception that ended it.            *)
(***************************************************************************)
State ==
    [guides |-> guides, layers |-> layers, geoobjects |-> geoobjects, next_uuid |-> next_uuid,
     kml |-> kml, geojson |-> geojson]

NoData == [loaded |-> FALSE, features |-> << >>]

NewCall(guide, update, clear) ==
    [guide       |-> guide,
     update      |-> update,
     clear       |-> clear,
     http        |-> FALSE,      \* request.urlopen was called
     fetch       |-> "none",     \* how urlopen(...).read().decode() ended
     kml_written |-> FALSE,      \* the KML cache file was written
     translated  |-> FALSE,      \* _translate was called
     tool        |-> "none",     \* what the external tool did
     result      |-> "none",     \* return value of _runcommand
     json_data   |-> NoData,
     layer       |-> NoUuid,     \* uuid of the layer find_one returned
     layer_uuid  |-> NoUuid,
     bulk        |-> FALSE,      \* bulk_create was called
     locations   |-> {},         \* uuids of the records handed to bulk_create
     log         |-> << >>,
     exc         |-> "none"]

Outcome(st, call) == [st |-> st, call |-> call]

Raise(st, call, exc) == Outcome(st, [call EXCEPT !.exc = exc])

Logged(call, entries) == [call EXCEPT !.log = @ \o entries]

Repeat(n, entry) == [i \in 1..n |-> entry]

(***************************************************************************)
(* _runcommand and _translate.                                             *)
(***************************************************************************)
\* _runcommand: only an exception of Popen / wait makes it return False;
\* the exit status that wait() returns is not looked at
_runcommand(tool) ==
    [result |-> IF tool = "spawn" THEN "False" ELSE "True",
     log    |-> <<Log("debug", "Executing command")>>
                \o (IF tool = "spawn"
                    THEN <<Log("error", "Problem during gdal execution")>>
                    ELSE << >>)]

\* the output file after the tool ran on the KML file
ToolOutput(file, kmlfile, tool) ==
    CASE tool = "ok"      -> GeoJsonFile(FeaturesOf(kmlfile.body))
      [] OTHER            -> file

\* a variant that removes the output file before it runs the tool
_translate_RemovesOutput(st, call, tool) ==
    LET guide == call.guide
        run   == _runcommand(tool)
    IN  Outcome(
          [st EXCEPT !.geojson[guide] = ToolOutput(NoFile, st.kml[guide], tool)],
          Logged([call EXCEPT !.translated = TRUE, !.tool = tool,
                              !.result = run.result],
                 run.log \o <<Log("debug", "Result (Translate)")>>))

\* _translate(kml_filename, geojson_filename)
_translate(st, call, tool) ==
    LET guide == call.guide
        run   == _runcommand(tool)
    IN  Outcome(
          [st EXCEPT !.geojson[guide] = ToolOutput(@, st.kml[guide], tool)],
          Logged([call EXCEPT !.translated = TRUE, !.tool = tool,
                              !.result = run.result],
                 run.log \o <<Log("debug", "Result (Translate)")>>))

(***************************************************************************)
(* _update_guide(guide, update=False, clear=True).                         *)
(***************************************************************************)
\* a variant that forgets the update argument
NeedFetch_IgnoresUpdate(file, update) == ~file.exists

\* os.path.exists(geojson_filename) is false, or update
NeedFetch(file, update) == ~file.exists \/ update

\* a variant whose except clause names HTTPError alone
FetchCaught_HTTPErrorOnly(fetch) == fetch = "HTTPError"

\* except (request.URLError, request.HTTPError)
FetchCaught(fetch) == fetch \in {"URLError", "HTTPError"}

\* a variant without the early return on an empty collection
NoFeatures_Never(features) == FALSE

\* len(json_data['features']) == 0
NoFeatures(features) == Len(features) = 0

\* index of the first feature the construction loop fails on
\* (Len + 1 when every feature has a Name)
FirstFault(features) ==
    IF \E i \in 1..Len(features) : ~HasName(features[i])
    THEN CHOOSE i \in 1..Len(features) :
            /\ ~HasName(features[i])
            /\ \A j \in 1..(i - 1) : HasName(features[j])
    ELSE Len(features) + 1

\* the locals of the import that the store operations pass on: the state,
\* the record of the call and the value of the variable `layer`
Frame(st, call, layer) == [st |-> st, call |-> call, layer |-> layer]

\* line 162: layer = objectmodels['layer'].find_one({'name': guide})
FindLayer(st, call) ==
    LET found == find_one(st.layers, call.guide)
    IN  Frame(st, [call EXCEPT !.layer = found.uuid], found)

\* a variant that forgets layer.delete() and only sets layer = None
ClearLayer_ForgetsDelete(st, call, layer) ==
    IF call.clear /\ layer # NoLayer
    THEN Frame(st, call, NoLayer)
    ELSE Frame(st, call, layer)

\* lines 164-166: if clear and layer is not None: layer.delete(); layer = None
ClearLayer(st, call, layer) ==
    IF call.clear /\ layer # NoLayer
    THEN Frame([st EXCEPT !.layers = delete(@, layer)], call, NoLayer)
    ELSE Frame(st, call, layer)

\* lines 168-177: create and save a layer under a fresh uuid, or keep the
\* uuid of the one found
CreateLayer(st, call, layer) ==
    IF layer = NoLayer
    THEN LET created == NewLayer(st.next_uuid, call.guide)
         IN  Frame([st EXCEPT !.layers = save(@, created),
                              !.next_uuid = @ + 1],
                   [call EXCEPT !.layer_uuid = created.uuid],
                   created)
    ELSE Frame(st, [call EXCEPT !.layer_uuid = layer.uuid], layer)

\* lines 179-182: if clear, delete every geoobject find() returns for layer_uuid
DeleteOld(st, call) ==
    LET old == IF call.clear THEN find(st.geoobjects, call.layer_uuid) ELSE {}
    IN  Outcome([st EXCEPT !.geoobjects = @ \ old],
                Logged(call, Repeat(Cardinality(old),
                                    Log("debug", "Deleting old guide location"))))

\* a variant that inserts each location as soon as it is constructed
BulkInsert_OneByOne(st, call) ==
    LET features  == call.json_data.features
        fault     == FirstFault(features)
        faulty    == fault <= Len(features)
        started   == IF faulty THEN fault ELSE Len(features)
        locations == {NewLocation(st.next_uuid + i - 1, call.layer_uuid, features[i]) :
                         i \in 1..(fault - 1)}
        call1     == Logged(call, Repeat(started,
                               Log("verbose", "Adding new guide location:")))
        st1       == [st EXCEPT !.next_uuid = @ + started,
                                !.geoobjects = bulk_create(@, locations)]
    IN  IF faulty
        THEN Raise(st1, call1, "KeyError: Name")
        ELSE Outcome(st1,
               Logged([call1 EXCEPT !.bulk = TRUE,
                                    !.locations = {o.uuid : o \in locations}],
                      <<Log("debug", "Bulk inserting guide locations")>>))

\* lines 184-198: construct a location per feature (the lookup of Name
\* raises KeyError), then insert them all with one bulk_create
BulkInsert(st, call) ==
    LET features  == call.json_data.features
        fault     == FirstFault(features)
        faulty    == fault <= Len(features)
        started   == IF faulty THEN fault ELSE Len(features)
        locations == {NewLocation(st.next_uuid + i - 1, call.layer_uuid, features[i]) :
                         i \in 1..(fault - 1)}
        call1     == Logged(call, Repeat(started,
                               Log("verbose", "Adding new guide location:")))
        st1       == [st EXCEPT !.next_uuid = @ + started]
    IN  IF faulty
        THEN Raise(st1, call1, "KeyError: Name")
        ELSE Outcome(
               [st1 EXCEPT !.geoobjects = bulk_create(@, locations)],
               Logged([call1 EXCEPT !.bulk = TRUE,
                                    !.locations = {o.uuid : o \in locations}],
                      <<Log("debug", "Bulk inserting guide locations")>>))

\* lines 162-198: find the layer, clear, create, delete old locations,
\* construct the new ones and insert them
ImportFeatures(st, call) ==
    LET found   == FindLayer(st, call)
        cleared == ClearLayer(found.st, found.call, found.layer)
        created == CreateLayer(cleared.st, cleared.call, cleared.layer)
        deleted == DeleteOld(created.st, created.call)
    IN  BulkInsert(deleted.st, deleted.call)

\* lines 155-160: open and parse the GeoJSON file, warn when it is empty
Load(st, call) ==
    LET file == st.geojson[call.guide]
    IN  IF ~file.exists THEN Raise(st, call, "FileNotFoundError")
        ELSE IF ~file.valid THEN Raise(st, call, "JSONDecodeError")
        ELSE LET call1 == [call EXCEPT !.json_data =
                              [loaded |-> TRUE, features |-> file.features]]
             IN  IF NoFeatures(file.features)
                 THEN Outcome(st, Logged(call1,
                                 <<Log("warn", "No features found!")>>))
                 ELSE Outcome(st, call1)

\* the load did not raise and did not return at line 160
Loaded(call) ==
    /\ call.exc = "none"
    /\ call.json_data.loaded
    /\ ~NoFeatures(call.json_data.features)

\* lines 155-198
LoadAndImport(st, call) ==
    LET l == Load(st, call)
    IN  IF Loaded(l.call) THEN ImportFeatures(l.st, l.call) ELSE l

\* lines 142-153: the conditional fetch and translation
Fetch(st, call, env) ==
    LET guide == call.guide
    IN  IF NeedFetch(st.geojson[guide], call.update)
        THEN IF guide \notin Registered(st.guides)
             THEN Raise(st, call, "KeyError: guide")
             ELSE LET call1 == [call EXCEPT !.http = TRUE, !.fetch = env.fetch]
                  IN  IF env.fetch # "ok"
                      THEN IF FetchCaught(env.fetch)
                           THEN Outcome(st, Logged(call1,
                                  <<Log("warn", "Could not get web guide data:")>>))
                           ELSE Raise(st, call1, env.fetch)
                      ELSE _translate([st EXCEPT !.kml[guide] = KmlFile(env.body)],
                                      [call1 EXCEPT !.kml_written = TRUE],
                                      env.tool)
        ELSE Outcome(st, call)

\* the fetch raised, or returned at line 148
FetchEnded(call) == call.exc # "none" \/ (call.http /\ call.fetch # "ok")

\* _update_guide(guide, update=False, clear=True)
_update_guide(st, guide, update, clear, env) ==
    LET f == Fetch(st, NewCall(guide, update, clear), env)
    IN  IF FetchEnded(f.call) THEN f ELSE LoadAndImport(f.st, f.call)

\* _update_guides: for guide in self.guides; an exception ends the loop
RECURSIVE _update_guides(_, _, _, _)
_update_guides(st, i, envs, calls) ==
    IF i > Len(st.guides)
    THEN [st |-> st, calls |-> calls, exc |-> "none"]
    ELSE LET r == _update_guide(st, st.guides[i], FALSE, TRUE, envs[i])
         IN  IF r.call.exc # "none"
             THEN [st |-> r.st, calls |-> Append(calls, r.call), exc |-> r.call.exc]
             ELSE _update_guides(r.st, i + 1, envs, Append(calls, r.call))

(***************************************************************************)
(* Invocations of _update_guide that run store operation by store          *)
(* operation: where each one is (pc), the record of its call, its          *)
(* variable `layer`, whether it ran with no other invocation under way,    *)
(* and whether the process stopped in the middle of it.                    *)
(***************************************************************************)
Procs == {"p1", "p2"}

IdleProc ==
    [pc      |-> "idle",
     call    |-> NewCall("", FALSE, TRUE),
     layer   |-> NoLayer,
     alone   |-> TRUE,
     crashed |-> FALSE]

\* the invocation has begun and has neither ended nor been stopped
Active(proc) == proc.pc \notin {"idle", "done"} /\ ~proc.crashed

(***************************************************************************)
(* Specifications.                                                         *)
(***************************************************************************)
\* After construction: the store is empty; the cache directory outlives
\* the process, so the GeoJSON file of a name that is not registered may
\* be there.
InitWith(registry) ==
    /\ guides = registry
    /\ layers = {}
    /\ geoobjects = {}
    /\ next_uuid = 1
    /\ kml = [g \in GuideNames |-> NoKml]
    /\ \E leftover \in {NoFile, GeoJsonFile(FeaturesOf(<<Placemark("A", "p")>>))} :
          geojson = [g \in GuideNames |->
                        IF g \in Registered(registry) THEN NoFile ELSE leftover]
    /\ last = [op |-> "init", calls |-> << >>, exc |-> "none"]
    /\ procs = [p \in Procs |-> IdleProc]

\* the registry as the source has it: one guide
Init == InitWith(<<"g1">>)

\* a registry of two guides
InitAll == InitWith(<<"g1", "g2">>)

\* the environment outcomes that matter to a call: those of the fetch when
\* it fetches, one (never looked at) when it does not
EnvsFor(guide, update) ==
    IF NeedFetch(geojson[guide], update) /\ guide \in Registered(guides)
    THEN Envs
    ELSE {CHOOSE env \in Envs : TRUE}

Commit(op, st, calls, exc) ==
    /\ st.next_uuid <= MaxUuid + 1
    /\ guides' = st.guides
    /\ layers' = st.layers
    /\ geoobjects' = st.geoobjects
    /\ next_uuid' = st.next_uuid
    /\ kml' = st.kml
    /\ geojson' = st.geojson
    /\ last' = [op |-> op, calls |-> calls, exc |-> exc]
    /\ procs' = procs

\* a direct call _update_guide(guide, update, clear)
UpdateGuide ==
    \E guide \in GuideNames, update \in BOOLEAN, clear \in BOOLEAN :
      \E env \in EnvsFor(guide, update) :
        LET r == _update_guide(State, guide, update, clear, env)
        IN  Commit("_update_guide", r.st, <<r.call>>, r.call.exc)

\* @handler(update_guide): self._update_guide(event.data)
update_guide ==
    \E data \in GuideNames :
      \E env \in EnvsFor(data, FALSE) :
        LET r == _update_guide(State, data, FALSE, TRUE, env)
        IN  Commit("_update_guide", r.st, <<r.call>>, r.call.exc)

\* @handler(update_all): self._update_guides()
update_all ==
    \E envs \in [1..Len(guides) -> Envs] :
        LET r == _update_guides(State, 1, envs, << >>)
        IN  Commit("_update_guides", r.st, r.calls, r.exc)

Next == UpdateGuide \/ update_guide \/ update_all

Spec == Init /\ [][Next]_vars

\* two guides, driven by the two event handlers only
NextAll == update_guide \/ update_all

SpecAll == InitAll /\ [][NextAll]_vars

(***************************************************************************)
(* Two update_guide events for a registered guide, dispatched without      *)
(* waiting for each other: every step is one block of lines of             *)
(* _update_guide that holds at most one store operation.                   *)
(***************************************************************************)
\* what a step leaves in the store and in the cache directory
Store(st) ==
    /\ guides' = st.guides
    /\ layers' = st.layers
    /\ geoobjects' = st.geoobjects
    /\ next_uuid' = st.next_uuid
    /\ kml' = st.kml
    /\ geojson' = st.geojson
    /\ last' = last

\* the invocation p goes on at pc with this call record and this `layer`
Goes(p, pc, call, layer) ==
    procs' = [procs EXCEPT ![p].pc = pc, ![p].call = call, ![p].layer = layer]

\* where an invocation is after a block that may have raised or returned
After(call, continues, pc) == IF continues THEN pc ELSE "done"

\* update_guide(event): self._update_guide(event.data) is entered
Begin(p) ==
    /\ procs[p].pc = "idle"
    /\ \E data \in Registered(guides) :
          procs' = [q \in Procs |->
                      IF q = p
                      THEN [IdleProc EXCEPT
                              !.pc = "fetch",
                              !.call = NewCall(data, FALSE, TRUE),
                              !.alone = \A r \in Procs : ~Active(procs[r])]
                      ELSE [procs[q] EXCEPT !.alone = @ /\ ~Active(procs[q])]]
    /\ Store(State)

\* lines 139-153
StepFetch(p) ==
    /\ procs[p].pc = "fetch" /\ ~procs[p].crashed
    /\ \E env \in Envs :
          LET f == Fetch(State, procs[p].call, env)
          IN  /\ Store(f.st)
              /\ Goes(p, After(f.call, ~FetchEnded(f.call), "load"), f.call, NoLayer)

\* lines 155-160
StepLoad(p) ==
    /\ procs[p].pc = "load" /\ ~procs[p].crashed
    /\ LET l == Load(State, procs[p].call)
       IN  /\ Store(l.st)
           /\ Goes(p, After(l.call, Loaded(l.call), "find_one"), l.call, NoLayer)

\* line 162
StepFindOne(p) ==
    /\ procs[p].pc = "find_one" /\ ~procs[p].crashed
    /\ LET f == FindLayer(State, procs[p].call)
       IN  Store(f.st) /\ Goes(p, "delete", f.call, f.layer)

\* lines 164-166
StepDelete(p) ==
    /\ procs[p].pc = "delete" /\ ~procs[p].crashed
    /\ LET f == ClearLayer(State, procs[p].call, procs[p].layer)
       IN  Store(f.st) /\ Goes(p, "save", f.call, f.layer)

\* lines 168-177
StepSave(p) ==
    /\ procs[p].pc = "save" /\ ~procs[p].crashed
    /\ LET f == CreateLayer(State, procs[p].call, procs[p].layer)
       IN  Store(f.st) /\ Goes(p, "find", f.call, f.layer)

\* lines 179-182
StepFind(p) ==
    /\ procs[p].pc = "find" /\ ~procs[p].crashed
    /\ LET f == DeleteOld(State, procs[p].call)
       IN  Store(f.st) /\ Goes(p, "bulk_create", f.call, procs[p].layer)

\* lines 184-198
StepBulkCreate(p) ==
    /\ procs[p].pc = "bulk_create" /\ ~procs[p].crashed
    /\ LET f == BulkInsert(State, procs[p].call)
       IN  Store(f.st) /\ Goes(p, "done", f.call, procs[p].layer)

\* the process stops in the middle of the invocation
Crash(p) ==
    /\ Active(procs[p])
    /\ procs' = [procs EXCEPT ![p].crashed = TRUE]
    /\ Store(State)

NextSteps ==
    \E p \in Procs :
        \/ Begin(p)
        \/ StepFetch(p)
        \/ StepLoad(p)
        \/ StepFindOne(p)
        \/ StepDelete(p)
        \/ StepSave(p)
        \/ StepFind(p)
        \/ StepBulkCreate(p)
        \/ Crash(p)

SpecSteps == Init /\ [][NextSteps]_vars

(***************************************************************************)
(* Vocabulary of the properties.                                           *)
(***************************************************************************)
\* some _update_guide call has run
Called == Len(last.calls) > 0

\* the record of the _update_guide call that ran last
TheCall == last.calls[Len(last.calls)]

\* the step that led here was exactly one _update_guide call
Single == Len(last.calls) = 1

\* the fetch failures the except clause is meant for
NetworkErrors == {"URLError", "HTTPError"}

HasLog(call, lvl, msg) == \E i \in 1..Len(call.log) : call.log[i] = Log(lvl, msg)

LayersNamed(ls, name) == {l \in ls : l.name = name}

\* the locations of the layers with this name
LocationsOf(ls, gs, name) == {o \in gs : \E l \in LayersNamed(ls, name) : o.layer = l.uuid}

AllNamed(features) == \A i \in 1..Len(features) : HasName(features[i])

\* how many records of the geoobject collection carry this payload
PayloadCount(gs, payload) == Cardinality({o \in gs : o.geojson = payload})

StoreUnchanged == layers' = layers /\ geoobjects' = geoobjects

(***************************************************************************)
(* C1. Full replace: when _update_guide(name, clear=True) for a registered *)
(* name finds a layer named `name` and runs to the bulk insert, the old    *)
(* layer record is gone and no geoobject that references the old layer's   *)
(* uuid is left.                                                           *)
(***************************************************************************)
C1_FullReplace ==
    (/\ Called /\ TheCall.guide \in Registered(guides)
     /\ TheCall.clear /\ TheCall.bulk /\ TheCall.layer # NoUuid)
    => /\ \A l \in layers : l.uuid # TheCall.layer
       /\ find(geoobjects, TheCall.layer) = {}

(***************************************************************************)
(* C2. Two outcomes: a call _update_guide(name) for a registered name      *)
(* (clear=True) ends either with exactly one layer named `name` that has   *)
(* as many geoobjects as the GeoJSON parsed by the call has features, or   *)
(* with the layer and geoobject collections as they were before the call.  *)
(***************************************************************************)
C2_TwoOutcomes ==
    [][(Single' /\ TheCall'.guide \in Registered(guides) /\ TheCall'.clear)
       => \/ /\ TheCall'.json_data.loaded
             /\ Cardinality(LayersNamed(layers', TheCall'.guide)) = 1
             /\ Cardinality(LocationsOf(layers', geoobjects', TheCall'.guide))
                  = Len(TheCall'.json_data.features)
          \/ StoreUnchanged]_vars

(***************************************************************************)
(* C3. Idempotence: when _update_guide(name, update=False, clear=True) is  *)
(* called again for a registered name, the GeoJSON cache being the same,   *)
(* the second call leaves as many layers named `name` and the same         *)
(* multiset of geoobject payloads in the whole collection as the first.    *)
(***************************************************************************)
C3_Idempotent ==
    [][(/\ Single /\ Single'
        /\ TheCall.guide \in Registered(guides)
        /\ TheCall'.guide = TheCall.guide
        /\ ~TheCall.update /\ TheCall.clear
        /\ ~TheCall'.update /\ TheCall'.clear
        /\ geojson' = geojson)
       => /\ Cardinality(LayersNamed(layers', TheCall.guide))
               = Cardinality(LayersNamed(layers, TheCall.guide))
          /\ \A o \in geoobjects \cup geoobjects' :
               PayloadCount(geoobjects', o.geojson) = PayloadCount(geoobjects, o.geojson)]_vars

(***************************************************************************)
(* C4. A fetch that fails with URLError / HTTPError is a contained abort:  *)
(* the call returns without raising, logs a warning, does not write the    *)
(* KML file, does not run the converter and leaves the cache files and     *)
(* every layer and geoobject record as they were.                          *)
(***************************************************************************)
C4_FetchFailureAborts ==
    [][(Single' /\ TheCall'.fetch \in NetworkErrors)
       => /\ TheCall'.http
          /\ TheCall'.exc = "none"
          /\ HasLog(TheCall', "warn", "Could not get web guide data:")
          /\ ~TheCall'.kml_written /\ kml' = kml
          /\ ~TheCall'.translated /\ geojson' = geojson
          /\ ~TheCall'.json_data.loaded
          /\ StoreUnchanged]_vars

\* a forced refresh of a populated guide failed to fetch
C4_Witness ==
    /\ Called /\ TheCall.fetch \in NetworkErrors
    /\ LocationsOf(layers, geoobjects, TheCall.guide) # {}

(***************************************************************************)
(* C5. Non-destructive skip: when the parsed GeoJSON has no feature, the   *)
(* call logs a warning and returns, and no layer or geoobject record is    *)
(* created or deleted, whatever update and clear are.                      *)
(***************************************************************************)
C5_EmptySkip ==
    [][(Single' /\ TheCall'.json_data.loaded /\ Len(TheCall'.json_data.features) = 0)
       => /\ TheCall'.exc = "none"
          /\ HasLog(TheCall', "warn", "No features found!")
          /\ TheCall'.layer_uuid = NoUuid /\ ~TheCall'.bulk
          /\ StoreUnchanged]_vars

\* an empty collection was parsed while a populated layer of that name exists
C5_Witness ==
    /\ Called /\ TheCall.json_data.loaded /\ Len(TheCall.json_data.features) = 0
    /\ LocationsOf(layers, geoobjects, TheCall.guide) # {}

(***************************************************************************)
(* C6. update_all is resilient per guide: whatever the guides' outcomes    *)
(* are among fetch failure, conversion failure, empty result and success,  *)
(* _update_guides calls _update_guide(guide) with the default arguments    *)
(* for every guide of the registry in registry order, no exception         *)
(* escapes, and the records of a guide whose call inserted nothing are     *)
(* untouched.                                                              *)
(***************************************************************************)
\* the outcome of a call is one of the four the property is about
ListedOutcome(call) ==
    /\ call.fetch \in {"none", "ok"} \cup NetworkErrors
    /\ AllNamed(call.json_data.features)

C6_UpdateAllResilient ==
    [][(/\ last'.op = "_update_guides"
        /\ \A i \in 1..Len(last'.calls) : ListedOutcome(last'.calls[i]))
       => /\ last'.exc = "none"
          /\ Len(last'.calls) = Len(guides)
          /\ \A i \in 1..Len(last'.calls) :
               LET call == last'.calls[i]
               IN  /\ call.guide = guides[i]
                   /\ ~call.update /\ call.clear
                   /\ ~call.bulk =>
                        /\ LayersNamed(layers', call.guide) = LayersNamed(layers, call.guide)
                        /\ LocationsOf(layers', geoobjects', call.guide)
                             = LocationsOf(layers, geoobjects, call.guide)]_vars

(***************************************************************************)
(* C7. Guide-local failures are not raised: for a registered name, a call  *)
(* whose fetch failed (URLError / HTTPError), whose conversion tool failed *)
(* (spawn error or non-zero exit, the GeoJSON file being there or not) or  *)
(* whose parsed collection is empty returns normally.                      *)
(***************************************************************************)
C7_FailuresContained ==
    (/\ Called /\ TheCall.guide \in Registered(guides)
     /\ AllNamed(TheCall.json_data.features)
     /\ \/ TheCall.fetch \in NetworkErrors
        \/ TheCall.tool \in ToolFailures
        \/ (TheCall.json_data.loaded /\ Len(TheCall.json_data.features) = 0))
    => TheCall.exc = "none"

(***************************************************************************)
(* C8. Fail-open conversion: when _update_guide(name, update=True) fetches *)
(* successfully, the conversion tool fails and a GeoJSON file with         *)
(* features is there from an earlier run, the call loads that stale file,  *)
(* and when it completes the layer named `name` is the one layer of that   *)
(* name and holds exactly one geoobject per feature of the stale file.     *)
(***************************************************************************)
C8_FailOpen ==
    [][(/\ Single' /\ TheCall'.guide \in Registered(guides)
        /\ TheCall'.update /\ TheCall'.clear
        /\ TheCall'.fetch = "ok" /\ TheCall'.tool \in ToolFailures
        /\ geojson[TheCall'.guide].exists
        /\ Len(geojson[TheCall'.guide].features) > 0)
       => LET g     == TheCall'.guide
              stale == geojson[g].features
              mine  == find(geoobjects', TheCall'.layer_uuid)
          IN  /\ geojson'[g] = geojson[g]
              /\ TheCall'.json_data = [loaded |-> TRUE, features |-> stale]
              /\ TheCall'.exc = "none" =>
                   /\ TheCall'.bulk
                   /\ LayersNamed(layers', g) = {NewLayer(TheCall'.layer_uuid, g)}
                   /\ Cardinality(mine) = Len(stale)
                   /\ \A i \in 1..Len(stale) : \E o \in mine : o.geojson = stale[i]
                   /\ \A o \in mine : \E i \in 1..Len(stale) : o.geojson = stale[i]]_vars

\* a forced refresh completed on the stale file, which differs from what
\* the fetched KML would have given
C8_Witness ==
    /\ Called /\ TheCall.guide \in Registered(guides)
    /\ TheCall.update /\ TheCall.clear
    /\ TheCall.fetch = "ok" /\ TheCall.tool \in ToolFailures
    /\ TheCall.bulk
    /\ TheCall.json_data.features # FeaturesOf(kml[TheCall.guide].body)

(***************************************************************************)
(* C9. An unknown guide is rejected: for a name that is not a key of the   *)
(* registry, whatever the cache holds and whatever update is, the call     *)
(* fails with the lookup error of the registry and creates or deletes no   *)
(* layer and no geoobject.                                                 *)
(***************************************************************************)
C9_UnknownRejected ==
    [][(Single' /\ TheCall'.guide \notin Registered(guides))
       => /\ TheCall'.exc = "KeyError: guide"
          /\ StoreUnchanged]_vars

(***************************************************************************)
(* C10 as stated: for a registered name the call issues the HTTP GET,      *)
(* writes the KML file and runs the converter if and only if the GeoJSON   *)
(* file is absent or update is true.                                       *)
(***************************************************************************)
C10_AllThreeIff ==
    [][(Single' /\ TheCall'.guide \in Registered(guides))
       => ((TheCall'.http /\ TheCall'.kml_written /\ TheCall'.translated)
             <=> (~geojson[TheCall'.guide].exists \/ TheCall'.update))]_vars

(***************************************************************************)
(* C10 amended. Conditional fetch: for a registered name the call issues   *)
(* the HTTP GET if and only if the GeoJSON file is absent or update is     *)
(* true; it writes the KML file and runs the converter if and only if      *)
(* that GET returned a decoded body, the converter running on the body     *)
(* just written; with the GeoJSON file there and update false it makes no  *)
(* request, writes no cache file and runs no external process.             *)
(***************************************************************************)
C10_ConditionalFetch ==
    [][(Single' /\ TheCall'.guide \in Registered(guides))
       => LET g == TheCall'.guide
          IN  /\ TheCall'.http <=> (~geojson[g].exists \/ TheCall'.update)
              /\ TheCall'.http <=> (TheCall'.fetch # "none")
              /\ TheCall'.kml_written <=> (TheCall'.fetch = "ok")
              /\ TheCall'.translated <=> (TheCall'.fetch = "ok")
              /\ TheCall'.translated <=> (TheCall'.tool # "none")
              /\ TheCall'.kml_written => kml'[g].exists
              /\ (TheCall'.tool = "ok") => geojson'[g] = GeoJsonFile(FeaturesOf(kml'[g].body))
              /\ ~TheCall'.kml_written => kml' = kml
              /\ ~TheCall'.translated => geojson' = geojson]_vars

\* a refresh was forced although a populated layer (and so the GeoJSON
\* file) was there: the GET was issued, the KML written, the tool run
C10_Witness ==
    /\ Called /\ TheCall.guide \in Registered(guides)
    /\ TheCall.update /\ TheCall.layer # NoUuid
    /\ TheCall.http /\ TheCall.kml_written /\ TheCall.translated

(***************************************************************************)
(* C11. Append mode: when _update_guide(name, clear=False) finds a layer   *)
(* named `name` and runs to completion, no layer record is created or      *)
(* deleted, no existing geoobject is deleted, every new geoobject          *)
(* references the existing layer's uuid, and that layer has as many        *)
(* geoobjects as before plus the number of parsed features.                *)
(***************************************************************************)
C11_AppendMode ==
    [][(/\ Single' /\ ~TheCall'.clear /\ TheCall'.layer # NoUuid
        /\ TheCall'.exc = "none" /\ TheCall'.bulk)
       => LET uuid == TheCall'.layer
          IN  /\ layers' = layers
              /\ TheCall'.layer_uuid = uuid
              /\ geoobjects \subseteq geoobjects'
              /\ \A o \in geoobjects' \ geoobjects : o.layer = uuid
              /\ Cardinality(find(geoobjects', uuid))
                   = Cardinality(find(geoobjects, uuid))
                     + Len(TheCall'.json_data.features)]_vars

\* features were appended to a layer that already held some
C11_Witness ==
    /\ Called /\ ~TheCall.clear /\ TheCall.layer # NoUuid /\ TheCall.bulk
    /\ Cardinality(find(geoobjects, TheCall.layer)) > Len(TheCall.json_data.features)

(***************************************************************************)
(* C12. Every failure of the conversion tool is detected and logged: when  *)
(* the tool fails to spawn or exits with a non-zero status, _runcommand    *)
(* returns False and an error-level entry is logged before the load step.  *)
(***************************************************************************)
C12_ToolFailureLogged ==
    (Called /\ TheCall.tool \in ToolFailures)
    => /\ TheCall.result = "False"
       /\ \E i \in 1..Len(TheCall.log) : TheCall.log[i].lvl = "error"

(***************************************************************************)
(* C13. No partial insert on a malformed feature: when a feature of the    *)
(* parsed collection has no Name, at whatever position, the call ends in   *)
(* the uncaught lookup fault before bulk_create is called and not one      *)
(* geoobject is inserted.                                                  *)
(***************************************************************************)
C13_NoPartialInsert ==
    [][(Single' /\ TheCall'.json_data.loaded /\ ~AllNamed(TheCall'.json_data.features))
       => /\ TheCall'.exc = "KeyError: Name"
          /\ ~TheCall'.bulk /\ TheCall'.locations = {}
          /\ geoobjects' \subseteq geoobjects]_vars

\* the fault came after a well-formed feature had been constructed
C13_Witness ==
    /\ Called /\ TheCall.json_data.loaded
    /\ Len(TheCall.json_data.features) > 1
    /\ HasName(TheCall.json_data.features[1])
    /\ ~AllNamed(TheCall.json_data.features)
    /\ TheCall.exc = "KeyError: Name"

(***************************************************************************)
(* C14. At most one layer per guide name: after any sequence of            *)
(* _update_guide / update_all calls that do not overlap, with any          *)
(* arguments and outcomes, the store holds at most one layer record of     *)
(* each name.                                                              *)
(***************************************************************************)
C14_OneLayerPerName ==
    \A name \in GuideNames : Cardinality(LayersNamed(layers, name)) <= 1

\* a layer was found, deleted and created anew under another uuid
C14_Witness ==
    /\ Called /\ TheCall.layer # NoUuid /\ TheCall.layer_uuid # TheCall.layer
    /\ LayersNamed(layers, TheCall.guide) = {NewLayer(TheCall.layer_uuid, TheCall.guide)}

(***************************************************************************)
(* C15. Referential integrity: the store being empty at the start, a call  *)
(* for a registered name that returns normally leaves every geoobject      *)
(* with a `layer` field that is the uuid of a layer record of the store,   *)
(* provided that was so before the call.                                   *)
(***************************************************************************)
NoOrphans(ls, gs) == \A o \in gs : \E l \in ls : l.uuid = o.layer

C15_ReferentialIntegrity ==
    [][(/\ NoOrphans(layers, geoobjects)
        /\ \A i \in 1..Len(last'.calls) :
              /\ last'.calls[i].guide \in Registered(guides)
              /\ last'.calls[i].exc = "none")
       => NoOrphans(layers', geoobjects')]_vars

(***************************************************************************)
(* C16. Concurrent updates of one guide are unprotected.  The guarantees   *)
(* hold when the invocations do not overlap: once every invocation that    *)
(* began has ended, each having run with no other one under way, there is  *)
(* at most one layer of each name, and the layer a completed invocation    *)
(* created holds one geoobject per feature it parsed.  An interleaving of  *)
(* the store operations of two invocations breaks them (the witness).      *)
(***************************************************************************)
\* every invocation that began has run to its end
Quiet == \A p \in Procs : procs[p].pc \in {"idle", "done"} /\ ~procs[p].crashed

Guarantees ==
    /\ \A name \in GuideNames : Cardinality(LayersNamed(layers, name)) <= 1
    /\ \A p \in Procs :
         LET call == procs[p].call
         IN  (call.bulk /\ NewLayer(call.layer_uuid, call.guide) \in layers)
             => Cardinality(find(geoobjects, call.layer_uuid))
                  = Len(call.json_data.features)

C16_SequentialGuarantees ==
    (Quiet /\ \A p \in Procs : procs[p].alone) => Guarantees

\* two invocations for one guide, interleaved, have both completed their
\* bulk insert and left two layers of that name
C16_Witness ==
    /\ Quiet
    /\ \A p \in Procs : procs[p].call.bulk /\ ~procs[p].alone
    /\ procs["p1"].call.guide = procs["p2"].call.guide
    /\ Cardinality(LayersNamed(layers, procs["p1"].call.guide)) > 1

(***************************************************************************)
(* C17. The replace sequence is not atomic: when an invocation with clear  *)
(* true that found a layer named `name` is stopped after it deleted the    *)
(* layer record and before bulk_create returned, no other invocation       *)
(* being under way, the layer named `name` is absent, or present without   *)
(* the complete set of the features the invocation parsed.                 *)
(***************************************************************************)
\* a layer of this name holds exactly one geoobject per feature
Complete(ls, gs, name, features) ==
    \E l \in LayersNamed(ls, name) :
        /\ Cardinality(find(gs, l.uuid)) = Len(features)
        /\ \A i \in 1..Len(features) : \E o \in find(gs, l.uuid) : o.geojson = features[i]

\* the invocation was stopped between the delete of the layer it found and
\* the return of bulk_create
StoppedInReplace(proc) ==
    /\ proc.crashed
    /\ proc.call.clear /\ proc.call.layer # NoUuid
    /\ proc.pc \in {"save", "find", "bulk_create"}

C17_ReplaceNotAtomic ==
    \A p \in Procs :
        (StoppedInReplace(procs[p]) /\ \A q \in Procs : procs[q].alone /\ ~Active(procs[q]))
        => \/ LayersNamed(layers, procs[p].call.guide) = {}
           \/ ~Complete(layers, geoobjects, procs[p].call.guide,
                        procs[p].call.json_data.features)

\* stopped after the new layer was saved: the layer found had held the
\* complete set, the new one holds nothing
C17_Witness ==
    \E p \in Procs :
        /\ StoppedInReplace(procs[p]) /\ procs[p].pc = "bulk_create"
        /\ \A q \in Procs : procs[q].alone /\ ~Active(procs[q])
        /\ Cardinality(find(geoobjects, procs[p].call.layer))
             = Len(procs[p].call.json_data.features)
        /\ LayersNamed(layers, procs[p].call.guide)
             = {NewLayer(procs[p].call.layer_uuid, procs[p].call.guide)}
        /\ find(geoobjects, procs[p].call.layer_uuid) = {}

====
